---- MODULE Spec2Model ----
(***************************************************************************)
(* A model of the inventory uploader's /apply handler (main.py): the SKU   *)
(* resolver with its process-wide VARIATION_INDEX, the payload builders,   *)
(* the batch dispatch in chunks and the audit log.                         *)
(*                                                                         *)
(* Every catalog request (GET or PUT) is one step of the handler.  The     *)
(* remote catalog is an unchanging value chosen in Init; each request may  *)
(* answer, answer with an HTTP error status, or fail in transport.         *)
(*                                                                         *)
(* Text is a sequence of one-character strings.  Python values that may be *)
(* None, an int or a str are tagged records (PyNone, PyInt, PyStr).        *)
(***************************************************************************)
EXTENDS Integers, Sequences, FiniteSets, TLC

\* ------------------------------------------------------------------ bounds

\* longest input list of freely mixed rows
MaxRows == 2

\* catalog requests of one run that may go wrong: a GET that raises, a PUT
\* answered by anything but an echo of every item
MaxFaults == 1

\* page requests of one scan among which a GET may fail
MaxFailPage == 7

\* rows of a bulk input beyond two full batches
BulkExtra == 50

\* the builders are given the quantities -MaxQty .. MaxQty
MaxQty == 5

\* ------------------------------------------------------- program constants

\* range(0, len(product_payload), 100), product_payload[i:i+100]
BatchSize == 100

\* per_page = 50 of the variable-product pages
VarsPerPage == 50

\* per_page=100 of the variation pages
VariationsPerPage == 100

\* not_found[:50]
NotFoundShown == 50

\* errors[:10]
ErrorsShown == 10

\* r.status_code >= 400
ErrorStatus == 400

\* ------------------------------------------------------------ python values

PyNone == [t |-> "None"]

PyInt(n) == [t |-> "int", i |-> n]

PyStr(s) == [t |-> "str", s |-> s]

IsNone(v) == v.t = "None"

Max(a, b) == IF a >= b THEN a ELSE b

Min(a, b) == IF a <= b THEN a ELSE b

DigitChars == <<"0", "1", "2", "3", "4", "5", "6", "7", "8", "9">>

IsDigit(c) == \E d \in 1..10 : DigitChars[d] = c

DigitValue(c) == (CHOOSE d \in 1..10 : DigitChars[d] = c) - 1

RECURSIVE DigitsOf(_)
\* the decimal digits of a natural number, as str() prints them
DigitsOf(n) ==
    IF n < 10 THEN <<DigitChars[n + 1]>>
    ELSE Append(DigitsOf(n \div 10), DigitChars[(n % 10) + 1])

RECURSIVE NatOf(_)
\* the value of a non-empty sequence of digits
NatOf(ds) ==
    IF Len(ds) = 0 THEN 0
    ELSE 10 * NatOf(SubSeq(ds, 1, Len(ds) - 1)) + DigitValue(ds[Len(ds)])

RECURSIVE LStrip(_)
LStrip(s) ==
    IF Len(s) > 0 /\ s[1] = " " THEN LStrip(Tail(s)) ELSE s

RECURSIVE RStrip(_)
RStrip(s) ==
    IF Len(s) > 0 /\ s[Len(s)] = " " THEN RStrip(SubSeq(s, 1, Len(s) - 1)) ELSE s

\* str.strip(): leading and trailing blanks removed
Strip(s) == RStrip(LStrip(s))

\* str(v)
Str(v) ==
    CASE v.t = "str" -> v.s
      [] v.t = "int" -> IF v.i < 0 THEN <<"-">> \o DigitsOf(0 - v.i) ELSE DigitsOf(v.i)
      [] OTHER -> <<"N", "o", "n", "e">>

\* int(v): [ok |-> TRUE, i |-> n], or [ok |-> FALSE, e |-> the exception raised]
Int_(v) ==
    CASE v.t = "int" -> [ok |-> TRUE, i |-> v.i]
      [] v.t = "None" -> [ok |-> FALSE, e |-> "TypeError"]
      [] OTHER ->
            LET s == Strip(v.s)
                neg == Len(s) > 0 /\ s[1] = "-"
                ds == IF Len(s) > 0 /\ s[1] \in {"-", "+"} THEN Tail(s) ELSE s
            IN  IF Len(ds) > 0 /\ \A k \in 1..Len(ds) : IsDigit(ds[k])
                THEN [ok |-> TRUE, i |-> IF neg THEN 0 - NatOf(ds) ELSE NatOf(ds)]
                ELSE [ok |-> FALSE, e |-> "ValueError"]

\* d.get(key, default) of a JSON object held as a record
Get(d, key, default) == IF key \in DOMAIN d THEN d[key] ELSE default

\* seq[a:b] with 0-based a, b as Python slices them
Slice(seq, a, b) == SubSeq(seq, a + 1, Min(b, Len(seq)))


\* ------------------------------------------------------------- the catalog

Simple(id, sku) == [id |-> id, type |-> "simple", sku |-> sku, variations |-> <<>>]

Variable(id, sku, variations) ==
    [id |-> id, type |-> "variable", sku |-> sku, variations |-> variations]

\* One product, two parents with variations (one variation without a SKU, one SKU
\* padded with blanks) and a parent without variations; SKUs unique.
CatalogSmall ==
    << Simple(42, <<"A", "1">>),
       Variable(10, <<"P">>,
                << [id |-> 101, sku |-> <<"V", "1">>],
                   [id |-> 103] >>),
       Variable(20, <<>>, << [id |-> 201, sku |-> <<" ", "W", "1", " ">>] >>),
       Variable(30, <<>>, <<>>) >>

\* A product and a variation that carry the same SKU, and a variation whose
\* SKU is blank.
CatalogOverlap ==
    << Simple(42, <<"V", "1">>),
       Variable(10, <<>>, << [id |-> 101, sku |-> <<"V", "1">>],
                             [id |-> 102, sku |-> <<" ">>] >>) >>

\* One parent whose variations fill more than one page.
CatalogManyVariations ==
    << Variable(10, <<>>,
                [k \in 1..(VariationsPerPage + 1) |->
                    [id |-> 1000 + k, sku |-> <<"S">> \o DigitsOf(k)]]) >>

\* Parents that fill more than one page, one variation each.
CatalogManyParents ==
    [k \in 1..(VarsPerPage + 1) |->
        Variable(500 + k, <<>>, << [id |-> 2000 + k, sku |-> <<"T">> \o DigitsOf(k)] >>)]

\* "unreachable" is the small catalog behind a connection that is down
CatalogNames == {"small", "overlap", "many_variations", "many_parents", "unreachable"}

CatalogOf(name) ==
    CASE name \in {"small", "unreachable"} -> CatalogSmall
      [] name = "overlap" -> CatalogOverlap
      [] name = "many_variations" -> CatalogManyVariations
      [] OTHER -> CatalogManyParents

\* v.get("sku") or ""
SkuOf(v) == Get(v, "sku", <<>>)

\* the trimmed SKUs of a product's variations
VariationSkus(p) == {Strip(SkuOf(p.variations[k])) : k \in 1..Len(p.variations)}

\* the catalog's answer to GET /products?sku=<sku>&per_page=1
ProductsBySku(cat, s) ==
    Slice(SelectSeq(cat, LAMBDA p : p.sku = s), 0, 1)

\* the catalog's answer to GET /products?type=variable&per_page=50&page=<page>
VariableProductsPage(cat, pg) ==
    Slice(SelectSeq(cat, LAMBDA p : p.type = "variable"),
          (pg - 1) * VarsPerPage, pg * VarsPerPage)

\* the catalog's answer to GET /products/<parent_id>/variations?per_page=100&page=<vpage>
VariationsPage(cat, parent_id, vpg) ==
    LET ps == SelectSeq(cat, LAMBDA p : p.id = parent_id)
    IN  IF ps = <<>> THEN <<>>
        ELSE Slice(ps[1].variations, (vpg - 1) * VariationsPerPage, vpg * VariationsPerPage)

\* ------------------------------------------------------------ the resolver

\* a slip: the page's entries replace the index instead of joining it
IndexVariations_replaces(index, parent_id, variations) ==
    LET vsku(k) == Strip(SkuOf(variations[k]))
        keys == {vsku(k) : k \in 1..Len(variations)} \ {<<>>}
        last(key) == CHOOSE k \in 1..Len(variations) :
                        /\ vsku(k) = key
                        /\ \A j \in (k + 1)..Len(variations) : vsku(j) # key
    IN  [key \in keys |-> <<parent_id, variations[last(key)].id>>]

\* a variant of IndexVariations that rebinds the entries the index already
\* holds to the parent of the page
IndexVariations_rebinds(index, parent_id, variations) ==
    LET vsku(k) == Strip(SkuOf(variations[k]))
        keys == {vsku(k) : k \in 1..Len(variations)} \ {<<>>}
        last(key) == CHOOSE k \in 1..Len(variations) :
                        /\ vsku(k) = key
                        /\ \A j \in (k + 1)..Len(variations) : vsku(j) # key
    IN  [key \in DOMAIN index \cup keys |->
            IF key \in keys THEN <<parent_id, variations[last(key)].id>>
            ELSE <<parent_id, index[key][2]>>]

\* a variant of IndexVariations that binds the SKUs as the catalog spells
\* them, blank ones included
IndexVariations_untrimmed(index, parent_id, variations) ==
    LET vsku(k) == SkuOf(variations[k])
        keys == {vsku(k) : k \in 1..Len(variations)}
        last(key) == CHOOSE k \in 1..Len(variations) :
                        /\ vsku(k) = key
                        /\ \A j \in (k + 1)..Len(variations) : vsku(j) # key
    IN  [key \in DOMAIN index \cup keys |->
            IF key \in keys THEN <<parent_id, variations[last(key)].id>> ELSE index[key]]

\* for v in variations: vsku = (v.get("sku") or "").strip();
\*                      if vsku: VARIATION_INDEX[vsku] = (parent_id, v["id"])
\* (the loop's effect: every non-blank trimmed SKU of the page is bound, the last
\* variation that carries a SKU winning)
IndexVariations(index, parent_id, variations) ==
    LET vsku(k) == Strip(SkuOf(variations[k]))
        keys == {vsku(k) : k \in 1..Len(variations)} \ {<<>>}
        last(key) == CHOOSE k \in 1..Len(variations) :
                        /\ vsku(k) = key
                        /\ \A j \in (k + 1)..Len(variations) : vsku(j) # key
    IN  [key \in DOMAIN index \cup keys |->
            IF key \in keys THEN <<parent_id, variations[last(key)].id>> ELSE index[key]]

\* ------------------------------------------------------ the payload builders

\* clean(v): None stays None, a blank string becomes None, else the trimmed string
Clean(v) ==
    IF IsNone(v) THEN PyNone
    ELSE LET s == Strip(Str(v)) IN IF s # <<>> THEN PyStr(s) ELSE PyNone

\* a variant of StockFields that keeps a negative quantity as it is
StockFields_noClamp(qty) ==
    IF IsNone(qty) THEN <<>>
    ELSE LET q == Int_(qty).i
         IN  [manage_stock |-> TRUE, stock_quantity |-> q,
              stock_status |-> IF q > 0 THEN "instock" ELSE "outofstock"]

\* the stock keys of an update item
StockFields(qty) ==
    IF IsNone(qty) THEN <<>>
    ELSE LET q == Max(0, Int_(qty).i)
         IN  [manage_stock |-> TRUE, stock_quantity |-> q,
              stock_status |-> IF q > 0 THEN "instock" ELSE "outofstock"]

\* a variant of PriceFields that leaves the sale price out when only the
\* regular price is given
PriceFields_keepsSale(rp0, sp0) ==
    LET rp1 == Clean(rp0)
        sp1 == Clean(sp0)
    IN  (IF ~IsNone(rp1) THEN [regular_price |-> rp1.s] ELSE <<>>)
        @@ (IF ~IsNone(sp1) THEN [sale_price |-> sp1.s] ELSE <<>>)

\* the price keys of an update item
PriceFields(rp0, sp0) ==
    LET rp1 == Clean(rp0)
        sp1 == Clean(sp0)
    IN  (IF ~IsNone(rp1) THEN [regular_price |-> rp1.s] ELSE <<>>)
        @@ (IF ~IsNone(sp1) THEN [sale_price |-> sp1.s]
            ELSE IF ~IsNone(rp1) THEN [sale_price |-> <<>>] ELSE <<>>)

build_update_item_for_product(prod_id, qty, rp0, sp0) ==
    [id |-> prod_id] @@ StockFields(qty) @@ PriceFields(rp0, sp0)

build_update_item_for_variation(variation_id, qty, rp0, sp0) ==
    [id |-> variation_id] @@ StockFields(qty) @@ PriceFields(rp0, sp0)

\* ---------------------------------------------------------------- the log

Text(x) == [t |-> "text", text |-> x]

Json(doc) == [t |-> "json", doc |-> doc]

EmptyStr == PyStr(<<>>)

\* one row of the audit log, with the nine columns of the CSV
LogRow(s, action, message, kind, parent_id, object_id, quantity, regular_price, sale_price) ==
    [sku |-> s, action |-> action, message |-> message, kind |-> kind,
     parent_id |-> parent_id, object_id |-> object_id, quantity |-> quantity,
     regular_price |-> regular_price, sale_price |-> sale_price]

\* the "updated" record written for an item of the product bucket
UpdatedProductRow(p) ==
    LogRow(<<>>, "updated", Text("product updated"), "product", EmptyStr, PyInt(p.id),
           IF "stock_quantity" \in DOMAIN p THEN PyInt(p.stock_quantity) ELSE EmptyStr,
           PyStr(Get(p, "regular_price", <<>>)), PyStr(Get(p, "sale_price", <<>>)))

\* the "updated" record written for an item of a parent's variation bucket
UpdatedVariationRow(parent_id, v) ==
    LogRow(<<>>, "updated", Text("variation updated"), "variation", PyInt(parent_id),
           PyInt(v.id),
           IF "stock_quantity" \in DOMAIN v THEN PyInt(v.stock_quantity) ELSE EmptyStr,
           PyStr(Get(v, "regular_price", <<>>)), PyStr(Get(v, "sale_price", <<>>)))

RECURSIVE UpdatedRows(_)
\* for parent_id, vlist in variations_payload_by_parent.items(): for v in vlist: ...
UpdatedRows(buckets) ==
    IF buckets = <<>> THEN <<>>
    ELSE [k \in 1..Len(buckets[1].vlist) |->
             UpdatedVariationRow(buckets[1].parent_id, buckets[1].vlist[k])]
         \o UpdatedRows(Tail(buckets))

\* -------------------------------------------------------------- the inputs

S(chars) == PyStr(chars)

RowProduct == [sku |-> S(<<"A", "1">>), quantity |-> PyInt(5)]

RowVariation ==
    [sku |-> S(<<" ", "V", "1">>), quantity |-> PyInt(-3), regular_price |-> S(<<"1", "0">>)]

RowVariationSale ==
    [sku |-> S(<<"W", "1">>), regular_price |-> S(<<" ", "1", "0", " ">>),
     sale_price |-> S(<<"8">>)]

RowMissing == [sku |-> S(<<"Z", "Z">>), quantity |-> PyInt(1)]

RowBlank == [sku |-> S(<<" ">>)]

RowBadQuantity == [sku |-> S(<<"A", "1">>), quantity |-> PyNone]

\* a row whose sale price is above its regular price
RowSaleAbove ==
    [sku |-> S(<<"A", "1">>), quantity |-> PyInt(5), regular_price |-> S(<<"1", "0">>),
     sale_price |-> S(<<"1", "5">>)]

\* a row of a product that carries no quantity field
RowNoQuantity == [sku |-> S(<<"A", "1">>), regular_price |-> S(<<"1", "0">>)]

MixedRows ==
    {RowProduct, RowVariation, RowVariationSale, RowMissing, RowBlank, RowBadQuantity}

\* all sequences over a set with at most n elements
SeqsUpTo(set, n) == UNION {[1..k -> set] : k \in 0..n}

Repeat(r, n) == [k \in 1..n |-> r]

Options == [do_stock : BOOLEAN, do_prices : BOOLEAN, dry_run : BOOLEAN]

StockOptions == {o \in Options : o.do_stock /\ ~o.do_prices}

\* a dry run is previewed with the stock option on
MixedOptions == {o \in Options : o.dry_run => o.do_stock}

Request(rs, o) ==
    [rows |-> rs, do_stock |-> o.do_stock, do_prices |-> o.do_prices, dry_run |-> o.dry_run]

BulkSizes == {BatchSize, BatchSize + 1, 2 * BatchSize + BulkExtra}

\* the requests posted to /apply against the catalog of the given name
Requests(name) ==
    CASE name = "small" ->
            {Request(rs, o) : rs \in SeqsUpTo(MixedRows, MaxRows), o \in MixedOptions}
            \cup {Request(Repeat(r, n), o) :
                    r \in {RowProduct, RowVariation}, n \in BulkSizes, o \in StockOptions}
            \cup {Request(Repeat(RowMissing, NotFoundShown + 1), o) : o \in StockOptions}
            \cup {Request(<<r>>, o) : r \in {RowSaleAbove, RowNoQuantity}, o \in MixedOptions}
      [] name = "overlap" ->
            {Request(rs, o) :
                rs \in SeqsUpTo({[sku |-> S(<<"V", "1">>), quantity |-> PyInt(5)], RowMissing},
                                MaxRows),
                o \in StockOptions}
      [] name = "many_variations" ->
            {Request(<<[sku |-> S(sk)]>>, o) :
                sk \in {<<"S", "1">>, <<"S", "1", "0", "1">>, <<"Z", "Z">>}, o \in StockOptions}
      [] name = "unreachable" ->
            {Request(Repeat(RowProduct, ErrorsShown + 1), o) : o \in StockOptions}
      [] OTHER ->
            {Request(<<[sku |-> S(sk)]>>, o) :
                sk \in {<<"T", "5", "1">>, <<"Z", "Z">>}, o \in StockOptions}

\* the exceptions a catalog GET raises: raise_for_status() or the transport
GetErrors == {"HTTPError", "ConnectionError"}

\* the catalog's answer to a batch PUT that echoes each of the n items
Echo(n) == [status |-> 200, json |-> TRUE, update |-> n]

\* the other answers: no item echoed, a body that is no JSON, an error status,
\* and a status that is neither 2xx nor an error (304, with no body)
OtherResponses ==
    {[status |-> 200, json |-> TRUE, update |-> 0],
     [status |-> 200, json |-> FALSE, update |-> 0],
     [status |-> ErrorStatus, json |-> FALSE, update |-> 0],
     [status |-> 304, json |-> FALSE, update |-> 0]}

\* the answers of the catalog to a batch PUT of n items, given the faults so far
PutResponses(n, used) ==
    {Echo(n)} \cup (IF used < MaxFaults THEN OtherResponses ELSE {})

\* a variant of BatchResult that takes the status 400 for a success
BatchResult_above400(resp) ==
    IF resp.status > ErrorStatus
    THEN [raised |-> FALSE, updated |-> 0, errors |-> <<[status |-> resp.status]>>]
    ELSE IF ~resp.json
    THEN [raised |-> TRUE, updated |-> 0, errors |-> <<>>]
    ELSE [raised |-> FALSE, updated |-> resp.update, errors |-> <<>>]

\* batch_update_products / batch_update_variations on an answer of the catalog:
\* the result dict, or the exception r.json() raises
BatchResult(resp) ==
    IF resp.status >= ErrorStatus
    THEN [raised |-> FALSE, updated |-> 0, errors |-> <<[status |-> resp.status]>>]
    ELSE IF ~resp.json
    THEN [raised |-> TRUE, updated |-> 0, errors |-> <<>>]
    ELSE [raised |-> FALSE, updated |-> resp.update, errors |-> <<>>]

\* ---------------------------------------------------------------- the state

VARIABLES
    catalog,            \* the name of the remote catalog (unchanging)
    VARIATION_INDEX,    \* the process-wide index: trimmed SKU -> <<parent id, variation id>>
    pc,                 \* the handler's position
    rows, do_stock, do_prices, dry_run,              \* the request
    row_no, sku, qty, rp, sp,                        \* the row loop
    page, vars_page, parent_no, vpage,               \* the scan of find_variation_by_sku_global
    updated_total, not_found, errors, log_rows,
    product_payload, variations_payload_by_parent,   \* the buckets
    bucket_no, i,                                    \* the flush loops
    summary, log_file,                               \* the result: <<>> or one element
    outcome,            \* per row read so far: what resolve_sku answered
    puts,               \* the batch PUT requests issued in this run, in order
    gets,               \* the number of GET requests issued in this run
    faults,             \* the number of requests that went wrong in this run
    scanPages,          \* page requests issued by the resolve in progress
    indexAtCall         \* the index as it was when the latest resolve_sku was entered

request == <<rows, do_stock, do_prices, dry_run>>

rowVars == <<row_no, sku, qty, rp, sp>>

scanVars == <<page, vars_page, parent_no, vpage>>

accVars == <<updated_total, not_found, errors, log_rows, product_payload,
             variations_payload_by_parent>>

flushVars == <<bucket_no, i>>

resultVars == <<summary, log_file>>

ghostVars == <<outcome, puts, gets, faults, scanPages, indexAtCall>>

vars == <<catalog, VARIATION_INDEX, pc, request, rowVars, scanVars, accVars, flushVars,
          resultVars, ghostVars>>

Catalog == CatalogOf(catalog)

Init ==
    /\ catalog \in CatalogNames
    /\ VARIATION_INDEX = <<>>
    /\ pc = "idle"
    /\ rows = <<>> /\ do_stock = FALSE /\ do_prices = FALSE /\ dry_run = FALSE
    /\ row_no = 1 /\ sku = <<>> /\ qty = PyNone /\ rp = PyNone /\ sp = PyNone
    /\ page = 1 /\ vars_page = <<>> /\ parent_no = 1 /\ vpage = 1
    /\ updated_total = 0 /\ not_found = <<>> /\ errors = <<>> /\ log_rows = <<>>
    /\ product_payload = <<>> /\ variations_payload_by_parent = <<>>
    /\ bucket_no = 1 /\ i = 0
    /\ summary = <<>> /\ log_file = <<>>
    /\ outcome = <<>> /\ puts = <<>> /\ gets = 0 /\ faults = 0
    /\ scanPages = 0 /\ indexAtCall = <<>>

\* the locals of a handler that is not running
Fresh ==
    /\ rows' = <<>> /\ do_stock' = FALSE /\ do_prices' = FALSE /\ dry_run' = FALSE
    /\ row_no' = 1 /\ sku' = <<>> /\ qty' = PyNone /\ rp' = PyNone /\ sp' = PyNone
    /\ page' = 1 /\ vars_page' = <<>> /\ parent_no' = 1 /\ vpage' = 1
    /\ updated_total' = 0 /\ not_found' = <<>> /\ errors' = <<>> /\ log_rows' = <<>>
    /\ product_payload' = <<>> /\ variations_payload_by_parent' = <<>>
    /\ bucket_no' = 1 /\ i' = 0
    /\ summary' = <<>> /\ log_file' = <<>>
    /\ outcome' = <<>> /\ puts' = <<>> /\ gets' = 0 /\ faults' = 0
    /\ scanPages' = 0 /\ indexAtCall' = <<>>

\* POST /apply: the handler starts on a request; the index is kept from run to run
StartRun ==
    /\ pc = "idle"
    /\ \E r \in Requests(catalog) :
          /\ rows' = r.rows
          /\ do_stock' = r.do_stock
          /\ do_prices' = r.do_prices
          /\ dry_run' = r.dry_run
    /\ pc' = "row"
    /\ UNCHANGED <<catalog, VARIATION_INDEX, rowVars, scanVars, accVars, flushVars,
                   resultVars, ghostVars>>

\* the response is sent (the result page, or the exception) and the handler's
\* locals are gone: the process waits for the next request
Return ==
    /\ pc \in {"done", "aborted"}
    /\ pc' = "idle"
    /\ Fresh
    /\ UNCHANGED <<catalog, VARIATION_INDEX>>

\* ------------------------------------------------------------ the row loop

\* sku = str(row.get("sku", "")).strip()
RowSku(row) == Strip(Str(Get(row, "sku", EmptyStr)))

\* a variant of RowQty that takes a missing quantity for 1
RowQty_defaultOne(row, stock) ==
    IF stock THEN Int_(Get(row, "quantity", PyInt(1))) ELSE [ok |-> TRUE, i |-> 0]

\* int(row.get("quantity", 0)) if do_stock_bool else None
RowQty(row, stock) ==
    IF stock THEN Int_(Get(row, "quantity", PyInt(0))) ELSE [ok |-> TRUE, i |-> 0]

\* a variant of RowPrice that reads the price whatever the option
RowPrice_ignoresOption(row, key, prices) == Get(row, key, PyNone)

\* row.get("regular_price") if do_prices_bool else None (and sale_price alike)
RowPrice(row, key, prices) == IF prices THEN Get(row, key, PyNone) ELSE PyNone

\* what resolve_sku answered for a row, kept for the properties
Answer(k, id, parent_id, pages) ==
    [sku |-> sku, k |-> k, id |-> id, parent_id |-> parent_id,
     hit |-> (sku \in DOMAIN indexAtCall), pages |-> pages]

\* the frame of find_variation_by_sku_global is gone
ScanReturns ==
    /\ page' = 1 /\ vars_page' = <<>> /\ parent_no' = 1 /\ vpage' = 1
    /\ scanPages' = 0
    /\ UNCHANGED indexAtCall

\* a variant of NextRow that flushes after every row
NextRow_flushesEarly(answer) ==
    /\ outcome' = Append(outcome, answer)
    /\ row_no' = row_no + 1
    /\ pc' = IF dry_run THEN "row" ELSE "flush_products"
    /\ ScanReturns

\* the row's work is over: on to the next row
NextRow(answer) ==
    /\ outcome' = Append(outcome, answer)
    /\ row_no' = row_no + 1
    /\ pc' = "row"
    /\ ScanReturns

\* a variant of WouldUpdateRow that reports the row as already updated
WouldUpdateRow_marksUpdated(kind, obj_id, parent_id) ==
    IF kind = "product"
    THEN LogRow(sku, "updated", Json(build_update_item_for_product(obj_id, qty, rp, sp)),
                "product", EmptyStr, PyInt(obj_id), qty, rp, sp)
    ELSE LogRow(sku, "updated", Json(build_update_item_for_variation(obj_id, qty, rp, sp)),
                "variation", PyInt(parent_id), PyInt(obj_id), qty, rp, sp)

\* the record of a row whose SKU resolved, in a dry run
WouldUpdateRow(kind, obj_id, parent_id) ==
    IF kind = "product"
    THEN LogRow(sku, "would_update", Json(build_update_item_for_product(obj_id, qty, rp, sp)),
                "product", EmptyStr, PyInt(obj_id), qty, rp, sp)
    ELSE LogRow(sku, "would_update", Json(build_update_item_for_variation(obj_id, qty, rp, sp)),
                "variation", PyInt(parent_id), PyInt(obj_id), qty, rp, sp)

\* a variant of AddToBucket that appends to the first bucket there is
AddToBucket_firstBucket(buckets, parent_id, item) ==
    IF buckets # <<>>
    THEN [b \in 1..Len(buckets) |->
             IF b = 1 THEN [buckets[b] EXCEPT !.vlist = Append(@, item)] ELSE buckets[b]]
    ELSE Append(buckets, [parent_id |-> parent_id, vlist |-> <<item>>])

\* variations_payload_by_parent.setdefault(parent_id, []).append(item)
AddToBucket(buckets, parent_id, item) ==
    IF \E b \in 1..Len(buckets) : buckets[b].parent_id = parent_id
    THEN [b \in 1..Len(buckets) |->
             IF buckets[b].parent_id = parent_id
             THEN [buckets[b] EXCEPT !.vlist = Append(@, item)]
             ELSE buckets[b]]
    ELSE Append(buckets, [parent_id |-> parent_id, vlist |-> <<item>>])

\* resolve_sku returned (kind, obj_id, parent_id): log in a dry run, else accumulate
Resolved(kind, obj_id, parent_id, pages) ==
    /\ IF dry_run
       THEN /\ log_rows' = Append(log_rows, WouldUpdateRow(kind, obj_id, parent_id))
            /\ UNCHANGED <<product_payload, variations_payload_by_parent>>
       ELSE IF kind = "product"
       THEN /\ product_payload' =
                  Append(product_payload, build_update_item_for_product(obj_id, qty, rp, sp))
            /\ UNCHANGED <<log_rows, variations_payload_by_parent>>
       ELSE /\ variations_payload_by_parent' =
                  AddToBucket(variations_payload_by_parent, parent_id,
                              build_update_item_for_variation(obj_id, qty, rp, sp))
            /\ UNCHANGED <<log_rows, product_payload>>
    /\ UNCHANGED <<updated_total, not_found, errors>>
    /\ NextRow(Answer(kind, obj_id, parent_id, pages))

\* resolve_sku returned None
NotFound(pages) ==
    /\ not_found' = Append(not_found, sku)
    /\ log_rows' = Append(log_rows,
          LogRow(sku, "not_found", Text("SKU not found"), "", EmptyStr, EmptyStr, qty, rp, sp))
    /\ UNCHANGED <<updated_total, errors, product_payload, variations_payload_by_parent>>
    /\ NextRow(Answer("none", 0, 0, pages))

\* except Exception as e
RowError(e, pages) ==
    /\ errors' = Append(errors, [sku |-> sku, e |-> e])
    /\ log_rows' = Append(log_rows,
          LogRow(sku, "error", Text(e), "", EmptyStr, EmptyStr, qty, rp, sp))
    /\ UNCHANGED <<updated_total, not_found, product_payload, variations_payload_by_parent>>
    /\ NextRow(Answer("error", 0, 0, pages))

\* if not sku: continue
SkipBlankRow ==
    /\ pc = "row" /\ row_no <= Len(rows)
    /\ RowSku(rows[row_no]) = <<>>
    /\ sku' = <<>>
    /\ row_no' = row_no + 1
    /\ outcome' = Append(outcome, [Answer("skip", 0, 0, 0) EXCEPT !.sku = <<>>])
    /\ UNCHANGED <<catalog, VARIATION_INDEX, pc, request, qty, rp, sp, scanVars, accVars,
                   flushVars, resultVars, puts, gets, faults, scanPages, indexAtCall>>

\* the row's fields are read (before the try block) and resolve_sku is entered
ReadRow ==
    /\ pc = "row" /\ row_no <= Len(rows)
    /\ LET row == rows[row_no] IN
          /\ RowSku(row) # <<>>
          /\ RowQty(row, do_stock).ok
          /\ sku' = RowSku(row)
          /\ qty' = IF do_stock THEN PyInt(RowQty(row, do_stock).i) ELSE PyNone
          /\ rp' = RowPrice(row, "regular_price", do_prices)
          /\ sp' = RowPrice(row, "sale_price", do_prices)
          /\ indexAtCall' = VARIATION_INDEX
    /\ pc' = "lookup"
    /\ UNCHANGED <<catalog, VARIATION_INDEX, request, row_no, scanVars, accVars, flushVars,
                   resultVars, outcome, puts, gets, faults, scanPages>>

\* int(...) raises outside the try block: the handler ends with the exception
ReadRowRaises ==
    /\ pc = "row" /\ row_no <= Len(rows)
    /\ RowSku(rows[row_no]) # <<>>
    /\ ~RowQty(rows[row_no], do_stock).ok
    /\ sku' = RowSku(rows[row_no])
    /\ pc' = "aborted"
    /\ UNCHANGED <<catalog, VARIATION_INDEX, request, row_no, qty, rp, sp, scanVars, accVars,
                   flushVars, resultVars, ghostVars>>

\* where the flush loops stand once the ranges that are exhausted are left:
\* for i in range(0, len(product_payload), 100), then
\* for parent_id, vlist in variations_payload_by_parent.items():
\*     for i in range(0, len(vlist), 100)
FlushPosition(phase, bucket, offset) ==
    IF phase = "flush_products" /\ offset < Len(product_payload)
    THEN [pc |-> "flush_products", bucket_no |-> 1, i |-> offset]
    ELSE LET b == IF phase = "flush_products" THEN 1
                  ELSE IF offset < Len(variations_payload_by_parent[bucket].vlist)
                  THEN bucket ELSE bucket + 1
             o == IF phase = "flush_variations" /\ b = bucket THEN offset ELSE 0
         IN  IF b <= Len(variations_payload_by_parent)
             THEN [pc |-> "flush_variations", bucket_no |-> b, i |-> o]
             ELSE [pc |-> "finish", bucket_no |-> b, i |-> o]

\* the flush loops move on to the given position
FlushMoves(phase, bucket, offset) ==
    /\ pc' = FlushPosition(phase, bucket, offset).pc
    /\ bucket_no' = FlushPosition(phase, bucket, offset).bucket_no
    /\ i' = FlushPosition(phase, bucket, offset).i

\* the for loop over the rows is over: if not dry_run_bool, the flush begins
RowsDone ==
    /\ pc = "row" /\ row_no > Len(rows)
    /\ IF dry_run
       THEN pc' = "finish" /\ UNCHANGED flushVars
       ELSE FlushMoves("flush_products", 1, 0)
    /\ UNCHANGED <<catalog, VARIATION_INDEX, request, rowVars, scanVars, accVars, resultVars,
                   ghostVars>>

\* ------------------------------------------------------------- resolve_sku

\* a GET may fail only on short inputs (the longest take one failure less),
\* while the run's faults are not used up, and only among the first page
\* requests of a scan
MayFail ==
    /\ faults < MaxFaults
    /\ Len(rows) + faults <= MaxRows
    /\ scanPages < MaxFailPage

\* the catalog can be reached: its requests are answered unless one fails
Up == catalog # "unreachable"

\* _wc_get raises (raise_for_status or the transport): the row's except clause runs
GetFails ==
    /\ pc \in {"lookup", "vars_page", "variations"}
    /\ IF Up THEN MayFail ELSE TRUE
    /\ \E e \in (IF Up THEN GetErrors ELSE {"ConnectionError"}) :
          RowError(e, IF pc = "lookup" THEN scanPages ELSE scanPages + 1)
    /\ gets' = gets + 1
    /\ faults' = faults + 1
    /\ UNCHANGED <<catalog, VARIATION_INDEX, request, sku, qty, rp, sp, flushVars, resultVars,
                   puts>>

\* find_simple_or_parent_by_sku found a product: ("product", prod["id"], None)
LookupFindsProduct ==
    /\ pc = "lookup" /\ Up
    /\ LET data == ProductsBySku(Catalog, sku) IN
          /\ data # <<>>
          /\ Resolved("product", data[1].id, 0, scanPages)
    /\ gets' = gets + 1
    /\ UNCHANGED <<catalog, VARIATION_INDEX, request, sku, qty, rp, sp, flushVars, resultVars,
                   puts, faults>>

\* a variant of LookupIndexHit that reads the index without the product lookup
LookupIndexHit_beforeProduct ==
    /\ pc = "lookup" /\ Up
    /\ sku \in DOMAIN VARIATION_INDEX
    /\ Resolved("variation", VARIATION_INDEX[sku][2], VARIATION_INDEX[sku][1], scanPages)
    /\ gets' = gets + 1
    /\ UNCHANGED <<catalog, VARIATION_INDEX, request, sku, qty, rp, sp, flushVars, resultVars,
                   puts, faults>>

\* no product; if sku in VARIATION_INDEX: return VARIATION_INDEX[sku]
LookupIndexHit ==
    /\ pc = "lookup" /\ Up
    /\ ProductsBySku(Catalog, sku) = <<>>
    /\ sku \in DOMAIN VARIATION_INDEX
    /\ Resolved("variation", VARIATION_INDEX[sku][2], VARIATION_INDEX[sku][1], scanPages)
    /\ gets' = gets + 1
    /\ UNCHANGED <<catalog, VARIATION_INDEX, request, sku, qty, rp, sp, flushVars, resultVars,
                   puts, faults>>

\* a slip: the scan starts without a look at the index
LookupStartsScan_ignoresIndex ==
    /\ pc = "lookup" /\ Up
    /\ ProductsBySku(Catalog, sku) = <<>>
    /\ page' = 1
    /\ pc' = "vars_page"
    /\ gets' = gets + 1
    /\ UNCHANGED <<catalog, VARIATION_INDEX, request, rowVars, vars_page, parent_no, vpage,
                   accVars, flushVars, resultVars, outcome, puts, faults, scanPages,
                   indexAtCall>>

\* no product and the index misses: the scan starts with page = 1
LookupStartsScan ==
    /\ pc = "lookup" /\ Up
    /\ ProductsBySku(Catalog, sku) = <<>>
    /\ sku \notin DOMAIN VARIATION_INDEX
    /\ page' = 1
    /\ pc' = "vars_page"
    /\ gets' = gets + 1
    /\ UNCHANGED <<catalog, VARIATION_INDEX, request, rowVars, vars_page, parent_no, vpage,
                   accVars, flushVars, resultVars, outcome, puts, faults, scanPages,
                   indexAtCall>>

\* a page of variable products arrives: the for loop over its parents starts
VarsPageFetched ==
    /\ pc = "vars_page"
    /\ LET got == VariableProductsPage(Catalog, page) IN
          /\ got # <<>>
          /\ vars_page' = [k \in 1..Len(got) |-> got[k].id]
    /\ parent_no' = 1
    /\ vpage' = 1
    /\ pc' = "variations"
    /\ gets' = gets + 1
    /\ scanPages' = scanPages + 1
    /\ UNCHANGED <<catalog, VARIATION_INDEX, request, rowVars, page, accVars, flushVars,
                   resultVars, outcome, puts, faults, indexAtCall>>

\* if not vars_page: break; return None
VarsPageEmpty ==
    /\ pc = "vars_page"
    /\ VariableProductsPage(Catalog, page) = <<>>
    /\ NotFound(scanPages + 1)
    /\ gets' = gets + 1
    /\ UNCHANGED <<catalog, VARIATION_INDEX, request, sku, qty, rp, sp, flushVars, resultVars,
                   puts, faults>>

\* a page of variations arrives and is indexed; the target is among the keys: return
VariationsFound ==
    /\ pc = "variations"
    /\ LET parent_id == vars_page[parent_no]
           variations == VariationsPage(Catalog, parent_id, vpage)
           index == IndexVariations(VARIATION_INDEX, parent_id, variations)
       IN  /\ variations # <<>>
           /\ sku \in DOMAIN index
           /\ VARIATION_INDEX' = index
           /\ Resolved("variation", index[sku][2], index[sku][1], scanPages + 1)
    /\ gets' = gets + 1
    /\ UNCHANGED <<catalog, request, sku, qty, rp, sp, flushVars, resultVars, puts,
                   faults>>

\* a variant of VariationsIndexed that goes on to the next page whether or not
\* the target has been indexed
VariationsIndexed_scansOn ==
    /\ pc = "variations"
    /\ LET parent_id == vars_page[parent_no]
           variations == VariationsPage(Catalog, parent_id, vpage)
           index == IndexVariations(VARIATION_INDEX, parent_id, variations)
       IN  /\ variations # <<>>
           /\ VARIATION_INDEX' = index
    /\ vpage' = vpage + 1
    /\ gets' = gets + 1
    /\ scanPages' = scanPages + 1
    /\ UNCHANGED <<catalog, pc, request, rowVars, page, vars_page, parent_no, accVars,
                   flushVars, resultVars, outcome, puts, faults, indexAtCall>>

\* a page of variations arrives and is indexed; the target is not there: vpage += 1
VariationsIndexed ==
    /\ pc = "variations"
    /\ LET parent_id == vars_page[parent_no]
           variations == VariationsPage(Catalog, parent_id, vpage)
           index == IndexVariations(VARIATION_INDEX, parent_id, variations)
       IN  /\ variations # <<>>
           /\ sku \notin DOMAIN index
           /\ VARIATION_INDEX' = index
    /\ vpage' = vpage + 1
    /\ gets' = gets + 1
    /\ scanPages' = scanPages + 1
    /\ UNCHANGED <<catalog, pc, request, rowVars, page, vars_page, parent_no, accVars,
                   flushVars, resultVars, outcome, puts, faults, indexAtCall>>

\* if not variations: break; the next parent of the page, or page += 1
VariationsEmpty ==
    /\ pc = "variations"
    /\ VariationsPage(Catalog, vars_page[parent_no], vpage) = <<>>
    /\ IF parent_no < Len(vars_page)
       THEN /\ parent_no' = parent_no + 1
            /\ vpage' = 1
            /\ UNCHANGED <<pc, page, vars_page>>
       ELSE /\ page' = page + 1
            /\ pc' = "vars_page"
            /\ vars_page' = <<>> /\ parent_no' = 1 /\ vpage' = 1
    /\ gets' = gets + 1
    /\ scanPages' = scanPages + 1
    /\ UNCHANGED <<catalog, VARIATION_INDEX, request, rowVars, accVars, flushVars, resultVars,
                   outcome, puts, faults, indexAtCall>>

\* --------------------------------------------------------------- the flush

\* a variant of Chunk whose slices are one item too long
Chunk_oneMore(payload, offset) == Slice(payload, offset, offset + BatchSize + 1)

\* payload[i:i+100]
Chunk(payload, offset) == Slice(payload, offset, offset + BatchSize)

\* the transport fails: no answer arrives
NoAnswer == [status |-> 0, json |-> FALSE, update |-> 0]

Put(kind, parent_id, items, answer) ==
    [kind |-> kind, parent_id |-> parent_id, items |-> items, answer |-> answer]

\* updated_total += res["updated"]; if res["errors"]: errors.extend(res["errors"])
Account(res) ==
    /\ updated_total' = updated_total + res.updated
    /\ errors' = errors \o res.errors

\* res = batch_update_products(product_payload[i:i+100]), answered by the catalog
FlushProducts ==
    /\ pc = "flush_products" /\ i < Len(product_payload)
    /\ LET chunk == Chunk(product_payload, i) IN
       \E resp \in PutResponses(Len(chunk), faults) :
          /\ ~BatchResult(resp).raised
          /\ Account(BatchResult(resp))
          /\ puts' = Append(puts, Put("product", 0, chunk, resp))
          /\ faults' = IF resp = Echo(Len(chunk)) THEN faults ELSE faults + 1
    /\ FlushMoves("flush_products", 1, i + BatchSize)
    /\ UNCHANGED <<catalog, VARIATION_INDEX, request, rowVars, scanVars, not_found,
                   log_rows, product_payload, variations_payload_by_parent,
                   resultVars, outcome, gets, scanPages, indexAtCall>>

\* SESSION.put or r.json() raises in batch_update_products: nothing catches it
FlushProductsRaises ==
    /\ pc = "flush_products" /\ i < Len(product_payload)
    /\ faults < MaxFaults
    /\ \E resp \in OtherResponses \cup {NoAnswer} :
          /\ resp = NoAnswer \/ BatchResult(resp).raised
          /\ puts' = Append(puts, Put("product", 0, Chunk(product_payload, i), resp))
    /\ faults' = faults + 1
    /\ pc' = "aborted"
    /\ UNCHANGED <<catalog, VARIATION_INDEX, request, rowVars, scanVars, accVars, flushVars,
                   resultVars, outcome, gets, scanPages, indexAtCall>>

\* res = batch_update_variations(parent_id, vlist[i:i+100]), answered by the catalog
FlushVariations ==
    /\ pc = "flush_variations" /\ bucket_no <= Len(variations_payload_by_parent)
    /\ LET bucket == variations_payload_by_parent[bucket_no]
           chunk == Chunk(bucket.vlist, i)
       IN  \E resp \in PutResponses(Len(chunk), faults) :
                 /\ ~BatchResult(resp).raised
                 /\ Account(BatchResult(resp))
                 /\ puts' = Append(puts, Put("variation", bucket.parent_id, chunk, resp))
                 /\ faults' = IF resp = Echo(Len(chunk)) THEN faults ELSE faults + 1
    /\ FlushMoves("flush_variations", bucket_no, i + BatchSize)
    /\ UNCHANGED <<catalog, VARIATION_INDEX, request, rowVars, scanVars, not_found,
                   log_rows, product_payload, variations_payload_by_parent,
                   resultVars, outcome, gets, scanPages, indexAtCall>>

\* SESSION.put or r.json() raises in batch_update_variations: nothing catches it
FlushVariationsRaises ==
    /\ pc = "flush_variations" /\ bucket_no <= Len(variations_payload_by_parent)
    /\ faults < MaxFaults
    /\ LET bucket == variations_payload_by_parent[bucket_no] IN
          /\ \E resp \in OtherResponses \cup {NoAnswer} :
                /\ resp = NoAnswer \/ BatchResult(resp).raised
                /\ puts' = Append(puts, Put("variation", bucket.parent_id,
                                            Chunk(bucket.vlist, i), resp))
    /\ faults' = faults + 1
    /\ pc' = "aborted"
    /\ UNCHANGED <<catalog, VARIATION_INDEX, request, rowVars, scanVars, accVars, flushVars,
                   resultVars, outcome, gets, scanPages, indexAtCall>>

\* ------------------------------------------------------ the log and summary

\* the "updated" records of a run that is not dry: one per accumulated item
UpdatedLog(products, buckets) ==
    [k \in 1..Len(products) |-> UpdatedProductRow(products[k])] \o UpdatedRows(buckets)

\* a variant of Summary that lists every SKU that was not found
Summary_listsAll(updated, nf, errs, dry) ==
    [updated_total |-> updated,
     not_found |-> nf, not_found_count |-> Len(nf),
     errors |-> Slice(errs, 0, ErrorsShown), errors_count |-> Len(errs),
     dry_run |-> dry]

\* a variant of Summary that counts what it shows
Summary_countsShown(updated, nf, errs, dry) ==
    [updated_total |-> updated,
     not_found |-> Slice(nf, 0, NotFoundShown),
     not_found_count |-> Len(Slice(nf, 0, NotFoundShown)),
     errors |-> Slice(errs, 0, ErrorsShown),
     errors_count |-> Len(Slice(errs, 0, ErrorsShown)),
     dry_run |-> dry]

\* the summary dict handed to the result page
Summary(updated, nf, errs, dry) ==
    [updated_total |-> updated,
     not_found |-> Slice(nf, 0, NotFoundShown), not_found_count |-> Len(nf),
     errors |-> Slice(errs, 0, ErrorsShown), errors_count |-> Len(errs),
     dry_run |-> dry]

\* the "updated" records are appended, the CSV is written, the summary returned
Finish ==
    /\ pc = "finish"
    /\ LET final == IF dry_run THEN log_rows
                    ELSE log_rows \o UpdatedLog(product_payload, variations_payload_by_parent)
       IN  /\ log_rows' = final
           /\ log_file' = <<final>>
    /\ summary' = <<Summary(updated_total, not_found, errors, dry_run)>>
    /\ pc' = "done"
    /\ UNCHANGED <<catalog, VARIATION_INDEX, request, rowVars, scanVars, updated_total,
                   not_found, errors, product_payload, variations_payload_by_parent,
                   flushVars, ghostVars>>

Next ==
    \/ StartRun
    \/ Return
    \/ SkipBlankRow
    \/ ReadRow
    \/ ReadRowRaises
    \/ RowsDone
    \/ GetFails
    \/ LookupFindsProduct
    \/ LookupIndexHit
    \/ LookupStartsScan
    \/ VarsPageFetched
    \/ VarsPageEmpty
    \/ VariationsFound
    \/ VariationsIndexed
    \/ VariationsEmpty
    \/ FlushProducts
    \/ FlushProductsRaises
    \/ FlushVariations
    \/ FlushVariationsRaises
    \/ Finish

Spec == Init /\ [][Next]_vars

\* ------------------------------------------------- the builders on their own

\* the quantities handed to a builder: None (stock is not updated) or an int
BuildQtys == {PyNone} \cup {PyInt(q) : q \in -MaxQty..MaxQty}

\* the prices handed to a builder: None, text (blank, padded or not) or a number
BuildPrices ==
    {PyNone, S(<<>>), S(<<" ">>), S(<<"1", "0">>), S(<<" ", "1", "0", " ">>), S(<<"8">>),
     PyInt(10)}

\* the arguments of one call of a builder are chosen
InitBuilders ==
    /\ catalog = "small"
    /\ VARIATION_INDEX = <<>>
    /\ pc = "build"
    /\ rows = <<>> /\ do_stock = FALSE /\ do_prices = FALSE /\ dry_run = FALSE
    /\ row_no = 1 /\ sku = <<>>
    /\ qty \in BuildQtys /\ rp \in BuildPrices /\ sp \in BuildPrices
    /\ page = 1 /\ vars_page = <<>> /\ parent_no = 1 /\ vpage = 1
    /\ updated_total = 0 /\ not_found = <<>> /\ errors = <<>> /\ log_rows = <<>>
    /\ product_payload = <<>> /\ variations_payload_by_parent = <<>>
    /\ bucket_no = 1 /\ i = 0
    /\ summary = <<>> /\ log_file = <<>>
    /\ outcome = <<>> /\ puts = <<>> /\ gets = 0 /\ faults = 0
    /\ scanPages = 0 /\ indexAtCall = <<>>

\* product_payload.append(build_update_item_for_product(obj_id, qty, rp, sp))
BuildProduct ==
    /\ pc = "build"
    /\ \E obj_id \in {42, 43} :
          product_payload' = <<build_update_item_for_product(obj_id, qty, rp, sp)>>
    /\ pc' = "built"
    /\ UNCHANGED <<catalog, VARIATION_INDEX, request, rowVars, scanVars, updated_total,
                   not_found, errors, log_rows, variations_payload_by_parent, flushVars,
                   resultVars, ghostVars>>

\* variations_payload_by_parent.setdefault(parent_id, []).append(
\*     build_update_item_for_variation(obj_id, qty, rp, sp))
BuildVariation ==
    /\ pc = "build"
    /\ \E obj_id \in {101, 201} :
          variations_payload_by_parent' =
              AddToBucket(<<>>, 10, build_update_item_for_variation(obj_id, qty, rp, sp))
    /\ pc' = "built"
    /\ UNCHANGED <<catalog, VARIATION_INDEX, request, rowVars, scanVars, updated_total,
                   not_found, errors, log_rows, product_payload, flushVars,
                   resultVars, ghostVars>>

NextBuilders == BuildProduct \/ BuildVariation

SpecBuilders == InitBuilders /\ [][NextBuilders]_vars
\* ============================================================ properties

Last(seq) == seq[Len(seq)]

\* what each catalog holds: the SKUs of its products, and the index a scan of
\* all its variations builds (trimmed SKU -> <<parent id, variation id>>)
Facts ==
    [name \in CatalogNames |->
        LET cat == CatalogOf(name)
            entries == UNION {{<<Strip(SkuOf(cat[p].variations[v])), cat[p].id,
                                 cat[p].variations[v].id>> :
                                  v \in 1..Len(cat[p].variations)} :
                              p \in {q \in 1..Len(cat) : cat[q].type = "variable"}}
            named == {e \in entries : e[1] # <<>>}
        IN  [products |-> {cat[p].sku : p \in 1..Len(cat)},
             variations |-> {e[1] : e \in named},
             index |-> [key \in {e[1] : e \in named} |->
                          LET e == CHOOSE x \in named : x[1] = key IN <<e[2], e[3]>>],
             unique |-> /\ \A e, f \in named : e[1] = f[1] => e = f
                        /\ \A e \in named : e[1] \notin {cat[p].sku : p \in 1..Len(cat)}]]

\* the SKU matches no product and no variation of the catalog
Unmatched(s) == s \notin Facts[catalog].products /\ s \notin Facts[catalog].variations

\* resolve_sku has just answered (or raised) for the latest row read
JustAnswered == pc = "row" /\ outcome # <<>> /\ Last(outcome).k # "skip"

\* every entry of index a is an entry of index b
Keeps(a, b) == \A key \in DOMAIN a : key \in DOMAIN b /\ b[key] = a[key]

\* C1 as stated: for a SKU that matches no product and no variation, resolve
\* returns NotFound and leaves the variation index as it was before the call.
C1_IndexUnchanged ==
    (JustAnswered /\ Unmatched(Last(outcome).sku) /\ Last(outcome).k # "error")
        => Last(outcome).k = "none" /\ VARIATION_INDEX = indexAtCall

\* C1 as amended: for a SKU that matches no product and no variation (catalog
\* unchanging, variation SKUs unique), resolve returns NotFound unless a catalog
\* request failed; the call removes and changes no entry of the index and adds
\* none for that SKU, but its scan adds the catalog's variations: after the call
\* the index holds every variation of the catalog that has a non-blank SKU.
C1_IndexOnlyGrows ==
    (JustAnswered /\ Unmatched(Last(outcome).sku))
        => /\ Last(outcome).k \in {"none", "error"}
           /\ Last(outcome).k = "error" => faults > 0
           /\ Last(outcome).k = "none" =>
                 /\ Keeps(indexAtCall, VARIATION_INDEX)
                 /\ Last(outcome).sku \notin DOMAIN VARIATION_INDEX
                 /\ VARIATION_INDEX = Facts[catalog].index

\* a resolve of an unmatched SKU returned NotFound and the index has grown
C1_Witness ==
    /\ JustAnswered /\ Unmatched(Last(outcome).sku) /\ Last(outcome).k = "none"
    /\ indexAtCall # VARIATION_INDEX
    /\ DOMAIN indexAtCall # {}

\* the part of C2 that speaks of one state
C2_Cached ==
    /\ \A k \in 1..Len(outcome) :
          (outcome[k].k # "skip" /\ outcome[k].hit) => outcome[k].pages = 0
    /\ pc \in {"vars_page", "variations"} => sku \notin DOMAIN indexAtCall
    /\ (JustAnswered /\ Last(outcome).hit /\ Last(outcome).k # "error"
            /\ Facts[catalog].unique)
          => /\ Last(outcome).k = "variation"
             /\ <<Last(outcome).parent_id, Last(outcome).id>> = indexAtCall[Last(outcome).sku]

\* C2: once a variation SKU is in the index, every later resolve of it (in this
\* run or a later one) requests no page of variable products or of variations,
\* so starts no scan, and, the catalog's SKUs being unique, returns the indexed
\* Variation{id, parentId} unless the product lookup fails; no step of the
\* program removes or rebinds an entry of the index.
C2_IndexedSkuNeverRescanned ==
    [](C2_Cached) /\ [][Keeps(VARIATION_INDEX, VARIATION_INDEX')]_vars

\* a SKU that was in the index when resolve was entered came back as a variation
C2_Witness ==
    /\ JustAnswered /\ Last(outcome).hit /\ Last(outcome).k = "variation"
    /\ Last(outcome).pages = 0

\* the rows read so far whose SKU is not empty, with what resolve_sku answered
Processed == SelectSeq(outcome, LAMBDA o : o.k # "skip")

\* the action a dry run records for an answer of resolve_sku
DryAction(k) ==
    CASE k \in {"product", "variation"} -> "would_update"
      [] k = "none" -> "not_found"
      [] OTHER -> "error"

\* C3: a dry run issues no batch PUT at any point, and its log holds, in input
\* order, exactly one would_update record for each row (of non-empty SKU) whose
\* SKU resolved and exactly one not_found record for each whose SKU did not,
\* each under the row's SKU, and no updated record; a SKU resolves exactly when
\* it matches a product or a variation of the catalog.
C3_DryRunWritesNothing ==
    dry_run =>
        LET done == Processed IN
        /\ puts = <<>>
        /\ Len(log_rows) = Len(done)
        /\ \A j \in 1..Len(log_rows) :
              /\ log_rows[j].sku = done[j].sku
              /\ log_rows[j].action = DryAction(done[j].k)
              /\ log_rows[j].action # "updated"
        /\ \A a \in {<<done[j].sku, done[j].k>> : j \in 1..Len(done)} :
              /\ a[2] \in {"product", "variation"} => ~Unmatched(a[1])
              /\ a[2] = "none" => Unmatched(a[1])
        /\ pc = "done" => log_file = <<log_rows>> /\ Len(outcome) = Len(rows)

\* a dry run has ended with a would_update and a not_found record in its log
C3_Witness ==
    /\ pc = "done" /\ dry_run /\ puts = <<>> /\ log_file # <<>>
    /\ \E j, k \in 1..Len(log_rows) :
          log_rows[j].action = "would_update" /\ log_rows[k].action = "not_found"

\* the buckets of the run: the product bucket and each parent's variation bucket
Buckets ==
    {[kind |-> "product", parent_id |-> 0, items |-> product_payload]}
    \cup {[kind |-> "variation", parent_id |-> variations_payload_by_parent[b].parent_id,
           items |-> variations_payload_by_parent[b].vlist] :
              b \in 1..Len(variations_payload_by_parent)}

\* the batch calls issued so far for a bucket, in dispatch order
CallsFor(b) == SelectSeq(puts, LAMBDA p : p.kind = b.kind /\ p.parent_id = b.parent_id)

\* C4: the c-th batch call of a bucket of n items carries the items
\* 100(c-1)+1 .. min(100c, n) of the bucket, so never more than 100, never none,
\* exactly 100 in every call but the last, and the calls in order make up the
\* bucket; once the flush of a run that is not dry is over, a bucket of n items
\* has had (n + 99) div 100 calls; every call belongs to a bucket.
C4_Chunking ==
    /\ \A k \in 1..Len(puts) :
          \E b \in Buckets : b.kind = puts[k].kind /\ b.parent_id = puts[k].parent_id
    /\ \A b \in Buckets :
          LET calls == CallsFor(b)
              n == Len(b.items)
          IN  /\ \A c \in 1..Len(calls) :
                    /\ calls[c].items = SubSeq(b.items, 100 * (c - 1) + 1, Min(100 * c, n))
                    /\ Len(calls[c].items) \in 1..100
                    /\ c < Len(calls) => Len(calls[c].items) = 100
              /\ (~dry_run /\ pc \in {"finish", "done"}) => Len(calls) = (n + 99) \div 100

\* 250 product items have gone out in calls of 100, 100 and 50
C4_Witness ==
    /\ pc = "done" /\ ~dry_run /\ Len(product_payload) = 250
    /\ Len(puts) = 3
    /\ <<Len(puts[1].items), Len(puts[2].items), Len(puts[3].items)>> = <<100, 100, 50>>

\* the number of elements of a sequence that have the property
Count(seq, Test(_)) == Cardinality({k \in 1..Len(seq) : Test(seq[k])})

\* the error strings of the rows (the others are those of the batch calls)
RowErrors == Count(errors, LAMBDA e : "sku" \in DOMAIN e)

\* C5 as stated: a row whose processing raises (reading its fields, resolving
\* its SKU, building its payload) never ends the run: it gets exactly one error
\* record under its SKU and one error string, and the rows after it are
\* processed, so that a run that ended has processed every row.
C5_RowErrorIsolated ==
    /\ pc = "aborted" => row_no > Len(rows)
    /\ (pc = "row" /\ row_no <= Len(rows) /\ RowSku(rows[row_no]) # <<>>)
          => RowQty(rows[row_no], do_stock).ok
    /\ Count(log_rows, LAMBDA r : r.action = "error")
          = Count(outcome, LAMBDA o : o.k = "error")
    /\ RowErrors = Count(outcome, LAMBDA o : o.k = "error")
    /\ pc = "done" => Len(outcome) = Len(rows)

\* the catalog answered the batch call with a status that is not 2xx
Non2xx(p) == p.answer # NoAnswer /\ p.answer.status \notin 200..299

\* the catalog answered the batch call with an error status (4xx, 5xx)
Refused(p) == p.answer # NoAnswer /\ p.answer.status >= 400

RECURSIVE Echoed(_)
\* the items the catalog echoed in its answers to the calls that were not refused
Echoed(ps) ==
    IF ps = <<>> THEN 0
    ELSE (IF Head(ps).answer # NoAnswer /\ ~Refused(Head(ps)) /\ Head(ps).answer.json
          THEN Head(ps).answer.update ELSE 0) + Echoed(Tail(ps))

RECURSIVE Submitted(_)
\* the items of the batch calls, in dispatch order
Submitted(ps) == IF ps = <<>> THEN <<>> ELSE Head(ps).items \o Submitted(Tail(ps))

RECURSIVE Accumulated(_)
\* the items of the variation buckets, in accumulation order
Accumulated(buckets) ==
    IF buckets = <<>> THEN <<>> ELSE Head(buckets).vlist \o Accumulated(Tail(buckets))

C7_TransportFailureHandled ==
    /\ Count(log_rows, LAMBDA r : r.action = "error") = Count(outcome, LAMBDA o : o.k = "error")
    /\ \A k \in 1..Len(puts) :
          puts[k].answer = NoAnswer
              => pc # "aborted" /\ Len(errors) > RowErrors

\* the run is not dry, has ended, and every batch call was answered with an
\* echo of each item it carried
AllEchoed ==
    /\ pc = "done" /\ ~dry_run
    /\ \A k \in 1..Len(puts) : puts[k].answer = Echo(Len(puts[k].items))

\* the SKUs of the rows read whose SKU did not resolve, in input order
Missing ==
    LET none == SelectSeq(outcome, LAMBDA o : o.k = "none")
    IN  [j \in 1..Len(none) |-> none[j].sku]

\* what C8 says of everything but the notFound list
SummaryCounts ==
    LET resolved == Count(outcome, LAMBDA o : o.k \in {"product", "variation"}) IN
    /\ summary[1].updated_total = resolved
    /\ summary[1].not_found_count = Len(Missing)
    /\ Count(log_file[1], LAMBDA r : r.action = "updated") = resolved
    /\ Count(log_file[1], LAMBDA r : r.action = "not_found") = Len(Missing)

\* C8 as stated: in a run that is not dry and whose batch calls all succeed
\* with every item echoed, updatedTotal is the number of rows whose SKU
\* resolved, notFoundCount the number of rows whose SKU did not, notFound lists
\* the SKUs of those rows in input order, and the log holds one updated record
\* per resolved row and one not_found record per unresolved row.
C8_SummaryTotals ==
    AllEchoed => SummaryCounts /\ summary[1].not_found = Missing

\* C8 as amended: the same, but notFound lists only the first 50 of the SKUs
\* that did not resolve, in input order.
C8_SummaryTotalsShown ==
    AllEchoed => SummaryCounts /\ summary[1].not_found = SubSeq(Missing, 1, Min(50, Len(Missing)))

\* rows A1 (a product) and ZZ (missing) gave updated_total 1 and not_found [ZZ]
C8_Witness ==
    /\ AllEchoed /\ rows = <<RowProduct, RowMissing>>
    /\ summary[1].updated_total = 1 /\ summary[1].not_found_count = 1
    /\ summary[1].not_found = <<RowSku(RowMissing)>>
    /\ Len(log_file[1]) = 2

RECURSIVE Accepted(_)
\* the number of items carried by the batch calls that got a 2xx answer
Accepted(ps) ==
    IF ps = <<>> THEN 0
    ELSE (IF Head(ps).answer # NoAnswer /\ ~Non2xx(Head(ps)) THEN Len(Head(ps).items) ELSE 0)
         + Accepted(Tail(ps))

\* C9 as stated: in a run that is not dry, the number of updated records in the
\* log is the number of items carried by the chunks that were submitted
\* successfully; an item of a chunk answered with an error has no such record.
C9_UpdatedIffSubmitted ==
    (pc = "done" /\ ~dry_run)
        => Count(log_file[1], LAMBDA r : r.action = "updated") = Accepted(puts)

\* C10 as stated: after a run, dry or not, the log holds exactly one record for
\* each input row of non-empty SKU, under that row's SKU whatever the outcome,
\* and none for a row of empty SKU.
C10_OneRecordPerSku ==
    pc = "done" =>
        LET log == log_file[1]
            read == Processed
        IN  /\ Len(log) = Len(read)
            /\ \A s \in {read[j].sku : j \in 1..Len(read)} \cup {log[j].sku : j \in 1..Len(log)} :
                  Count(log, LAMBDA r : r.sku = s) = Count(read, LAMBDA o : o.sku = s)

\* the update items a state holds: those of the product bucket and of the
\* variation buckets
Items ==
    {product_payload[k] : k \in 1..Len(product_payload)}
    \cup UNION {{variations_payload_by_parent[b].vlist[k] :
                    k \in 1..Len(variations_payload_by_parent[b].vlist)} :
                 b \in 1..Len(variations_payload_by_parent)}

StockKeys == {"manage_stock", "stock_quantity", "stock_status"}

\* C11: a builder given an integer qty returns an item with manage_stock true,
\* stock_quantity max(0, qty) and stock_status instock when that is positive,
\* outofstock otherwise; given no qty it returns an item with none of the three
\* stock keys.  In both cases the item carries the id it was given.
C11_StockFields ==
    pc = "built" =>
        /\ Items # {}
        /\ \A item \in Items :
              /\ item.id \in {42, 43, 101, 201}
              /\ IF qty = PyNone
                 THEN DOMAIN item \cap StockKeys = {}
                 ELSE /\ StockKeys \subseteq DOMAIN item
                      /\ item.manage_stock = TRUE
                      /\ item.stock_quantity = (IF qty.i > 0 THEN qty.i ELSE 0)
                      /\ item.stock_status =
                            (IF qty.i > 0 THEN "instock" ELSE "outofstock")

\* a builder was given the quantity -3 and returned 0 / outofstock
C11_Witness ==
    /\ pc = "built" /\ qty = PyInt(-3)
    /\ \E item \in Items : item.stock_quantity = 0 /\ item.stock_status = "outofstock"

\* a price as the builders take it: trimmed text, absent when None or blank
Price(v) ==
    IF v = PyNone THEN <<>>
    ELSE IF v.t = "int" THEN DigitsOf(v.i)
    ELSE SelectSeq(v.s, LAMBDA c : c # " ")

\* C12: with the prices trimmed and a blank price taken as absent, a builder
\* given a regular price and no sale price sets regular_price and sets
\* sale_price to the empty string; given both it sets both to their trimmed
\* values; given only a sale price it sets sale_price alone; given neither it
\* sets no price key.
C12_PriceFields ==
    pc = "built" =>
        \A item \in Items :
            LET r == Price(rp)
                s == Price(sp)
                prices == [key \in DOMAIN item \cap {"regular_price", "sale_price"} |-> item[key]]
            IN  CASE r # <<>> /\ s = <<>> -> prices = [regular_price |-> r, sale_price |-> <<>>]
                  [] r # <<>> /\ s # <<>> -> prices = [regular_price |-> r, sale_price |-> s]
                  [] r = <<>> /\ s # <<>> -> prices = [sale_price |-> s]
                  [] OTHER -> DOMAIN prices = {}

\* a builder was given the regular price " 10 " alone and returned "10" and ""
C12_Witness ==
    /\ pc = "built" /\ rp = S(<<" ", "1", "0", " ">>) /\ sp = PyNone
    /\ \E item \in Items : item.regular_price = <<"1", "0">> /\ item.sale_price = <<>>

\* the row carries both prices and its sale price is the greater number
SaleAboveRegular(row) ==
    /\ {"regular_price", "sale_price"} \subseteq DOMAIN row
    /\ Int_(row.regular_price).ok /\ Int_(row.sale_price).ok
    /\ Int_(row.sale_price).i > Int_(row.regular_price).i

\* C13 as stated: a row that carries both prices with the sale price strictly
\* above the regular price is excluded from processing: it is never resolved,
\* never turned into a payload and never submitted (regular price 10 with sale
\* price 15 is excluded).
C13_InvalidRowExcluded ==
    /\ \A k \in 1..Len(outcome) : SaleAboveRegular(rows[k]) => outcome[k].k = "skip"
    /\ (pc \in {"lookup", "vars_page", "variations"}) => ~SaleAboveRegular(rows[row_no])
    /\ \A item \in Items :
          {"regular_price", "sale_price"} \subseteq DOMAIN item
              => ~(Int_(PyStr(item.sale_price)).ok /\ Int_(PyStr(item.regular_price)).ok
                   /\ Int_(PyStr(item.sale_price)).i > Int_(PyStr(item.regular_price)).i)

\* the first n elements of a sequence, all of them when it has no more
FirstOf(seq, n) == SubSeq(seq, 1, IF Len(seq) < n THEN Len(seq) ELSE n)

\* what the errors of a run are, in order of occurrence: one per row whose
\* resolution raised, under the row's SKU, then one per refused batch call
ErrorsInOrder ==
    LET raised == SelectSeq(outcome, LAMBDA o : o.k = "error")
        refused == SelectSeq(puts, Refused)
    IN  /\ Len(errors) = Len(raised) + Len(refused)
        /\ \A k \in 1..Len(raised) :
              "sku" \in DOMAIN errors[k] /\ errors[k].sku = raised[k].sku
        /\ \A k \in 1..Len(refused) :
              errors[Len(raised) + k] = [status |-> refused[k].answer.status]

\* C14: in the summary of every run, not_found is the first min(50, N) SKUs
\* that did not resolve, in input order, and not_found_count is N, the number
\* of all of them; errors is the first min(10, E) error strings in order of
\* occurrence and errors_count is E, the number of all of them.
C14_SummaryTruncation ==
    /\ ErrorsInOrder
    /\ summary # <<>> =>
          /\ summary[1].not_found = FirstOf(Missing, 50)
          /\ summary[1].not_found_count = Len(Missing)
          /\ summary[1].errors = FirstOf(errors, 10)
          /\ summary[1].errors_count = Len(errors)
          /\ Len(errors) = Count(outcome, LAMBDA o : o.k = "error") + Count(puts, Refused)

\* a run of 11 failed rows returned a summary of 10 errors and the count 11
C14_Witness ==
    /\ pc = "done" /\ summary # <<>>
    /\ summary[1].errors_count = 11 /\ Len(summary[1].errors) = 10
    /\ summary[1].errors[10] = errors[10]

\* the ids of the products of the catalog that carry the SKU
ProductIds(s) ==
    {Catalog[p].id : p \in {q \in 1..Len(Catalog) : Catalog[q].sku = s}}

\* C15: resolve asks the catalog for a product of the SKU before anything
\* else; when there is one the answer is that product, no page of the scan is
\* requested and the index is left alone, so a SKU that is a product's and a
\* variation's (indexed or not) resolves to the product; an answer from the
\* index, and a scan, come only for a SKU that no product carries, and a scan
\* only for a SKU the index did not hold.
C15_ProductFirst ==
    /\ pc = "lookup" => scanPages = 0
    /\ pc \in {"vars_page", "variations"}
          => /\ ProductIds(sku) = {}
             /\ sku \notin DOMAIN indexAtCall
             /\ gets > 0
    /\ JustAnswered =>
          LET o == Last(outcome) IN
          /\ (ProductIds(o.sku) # {} /\ o.k # "error")
                => /\ o.k = "product" /\ o.id \in ProductIds(o.sku)
                   /\ o.pages = 0
                   /\ VARIATION_INDEX = indexAtCall
          /\ o.k = "product" => ProductIds(o.sku) # {}
          /\ o.k \in {"variation", "none"} => ProductIds(o.sku) = {}
          /\ (o.k \in {"variation", "none"} /\ o.pages > 0) => ~o.hit
          /\ gets > 0

\* a SKU that is both a product's and an indexed variation's resolved to the
\* product
C15_Witness ==
    /\ JustAnswered /\ Last(outcome).k = "product" /\ Last(outcome).hit
    /\ Last(outcome).sku \in Facts[catalog].variations
    /\ Last(outcome).pages = 0

\* the variable products of the catalog, in the order of its pages
VariableProducts == SelectSeq(Catalog, LAMBDA p : p.type = "variable")

\* the number of pages of the given size that n entries fill
PagesOf(n, size) == (n + size - 1) \div size

RECURSIVE PagesBefore(_)
\* the variation pages requested for the variable products before the j-th:
\* for each its pages and the empty page that ends them
PagesBefore(j) ==
    IF j <= 1 THEN 0
    ELSE PagesBefore(j - 1)
         + PagesOf(Len(VariableProducts[j - 1].variations), VariationsPerPage) + 1

\* the variation pages that hold the SKU: <<j, v>> for page v of product j
PagesHolding(s) ==
    {jv \in UNION {{<<j, v>> : v \in 1..PagesOf(Len(VariableProducts[j].variations),
                                                VariationsPerPage)} :
                   j \in 1..Len(VariableProducts)} :
        \E k \in ((jv[2] - 1) * VariationsPerPage + 1)..
                  Min(jv[2] * VariationsPerPage, Len(VariableProducts[jv[1]].variations)) :
            Strip(SkuOf(VariableProducts[jv[1]].variations[k])) = s}

\* the first of them in the order of the scan
FirstHolding(s) ==
    CHOOSE jv \in PagesHolding(s) :
        \A other \in PagesHolding(s) :
            jv[1] < other[1] \/ (jv[1] = other[1] /\ jv[2] <= other[2])

\* the page requests of a scan for the SKU that stops after the first page
\* that holds it, and runs to the empty page of variable products when none does
ScanLength(s) ==
    IF PagesHolding(s) = {}
    THEN PagesOf(Len(VariableProducts), VarsPerPage) + 1
         + PagesBefore(Len(VariableProducts) + 1)
    ELSE PagesOf(FirstHolding(s)[1], VarsPerPage) + PagesBefore(FirstHolding(s)[1])
         + FirstHolding(s)[2]

\* C16: a scan goes on only while its target is not in the index; it returns
\* the target's Variation{id, parentId} right after the first variation page
\* that holds the target has been indexed, having requested the pages up to
\* that one and none after it, and it returns NotFound only when no page holds
\* the target, after every page of variations of every variable product was
\* requested (and indexed).
C16_ScanStopsAtTarget ==
    /\ pc \in {"vars_page", "variations"} => sku \notin DOMAIN VARIATION_INDEX
    /\ (JustAnswered /\ Last(outcome).pages > 0 /\ Last(outcome).k # "error") =>
          LET o == Last(outcome) IN
          /\ o.pages = ScanLength(o.sku)
          /\ o.k = "variation" =>
                /\ PagesHolding(o.sku) # {}
                /\ o.parent_id = VariableProducts[FirstHolding(o.sku)[1]].id
                /\ <<o.parent_id, o.id>> = VARIATION_INDEX[o.sku]
          /\ o.k = "none" =>
                /\ PagesHolding(o.sku) = {}
                /\ VARIATION_INDEX = Facts[catalog].index
          /\ o.k \in {"variation", "none"}

\* the target was on the first of two variation pages: the scan returned it
\* after two requests and the second page was never indexed
C16_Witness ==
    /\ JustAnswered /\ Last(outcome).k = "variation" /\ Last(outcome).pages = 2
    /\ catalog = "many_variations"
    /\ DOMAIN VARIATION_INDEX # DOMAIN Facts[catalog].index

\* what resolve_sku answers for the SKU in a run that is alone with an empty
\* index: <<kind, id, parent id>>
Alone(s) ==
    IF ProductIds(s) # {} THEN <<"product", CHOOSE id \in ProductIds(s) : TRUE, 0>>
    ELSE IF s \in Facts[catalog].variations
    THEN <<"variation", Facts[catalog].index[s][2], Facts[catalog].index[s][1]>>
    ELSE <<"none", 0, 0>>

IdsOf(items) == [k \in 1..Len(items) |-> items[k].id]

\* C18: in a run that is not dry the product bucket holds the payloads of the
\* rows resolved as products and the bucket of a parent those of the rows
\* resolved as variations of that parent, in input order, one payload per row;
\* a call to the product endpoint carries items of the product bucket only, a
\* call to a parent's variation endpoint items of that parent's bucket only,
\* and once the flush is over the calls of a bucket carry each of its items
\* exactly once.
C18_BucketRouting ==
    ~dry_run =>
        LET read == Processed
            products == SelectSeq(read, LAMBDA o : o.k = "product")
            parents == {read[k].parent_id : k \in {j \in 1..Len(read) : read[j].k = "variation"}}
        IN  /\ IdsOf(product_payload) = [k \in 1..Len(products) |-> products[k].id]
            /\ {variations_payload_by_parent[b].parent_id :
                    b \in 1..Len(variations_payload_by_parent)} = parents
            /\ \A b, c \in 1..Len(variations_payload_by_parent) :
                  variations_payload_by_parent[b].parent_id
                      = variations_payload_by_parent[c].parent_id => b = c
            /\ \A b \in 1..Len(variations_payload_by_parent) :
                  LET parent_id == variations_payload_by_parent[b].parent_id
                      mine == SelectSeq(read, LAMBDA o : o.k = "variation"
                                                         /\ o.parent_id = parent_id)
                  IN  IdsOf(variations_payload_by_parent[b].vlist)
                          = [k \in 1..Len(mine) |-> mine[k].id]
            /\ \A k \in 1..Len(puts) :
                  /\ puts[k].kind \in {"product", "variation"}
                  /\ puts[k].kind = "product" => puts[k].parent_id = 0
                  /\ \E b \in Buckets :
                        /\ b.kind = puts[k].kind /\ b.parent_id = puts[k].parent_id
                        /\ \A j \in 1..Len(puts[k].items) :
                              \E n \in 1..Len(b.items) : b.items[n] = puts[k].items[j]
            /\ pc \in {"finish", "done"} =>
                  \A b \in Buckets : Submitted(CallsFor(b)) = b.items

\* a variation of parent 10 and a variation of parent 20 went out in two
\* calls, each to the endpoint of its own parent
C18_Witness ==
    /\ pc = "done" /\ ~dry_run /\ Len(puts) = 2
    /\ puts[1].kind = "variation" /\ puts[2].kind = "variation"
    /\ puts[1].parent_id = 10 /\ puts[2].parent_id = 20
    /\ IdsOf(puts[1].items) = <<101>> /\ IdsOf(puts[2].items) = <<201>>

\* what C19 says of one state
C19_Order ==
    /\ puts # <<>> =>
          /\ pc \in {"flush_products", "flush_variations", "finish", "done", "aborted"}
          /\ row_no > Len(rows) /\ Len(outcome) = Len(rows)
    /\ \A j, k \in 1..Len(puts) :
          (j < k /\ puts[j].kind = "variation") => puts[k].kind = "variation"
    /\ pc \in {"flush_variations", "finish", "done"} /\ ~dry_run
          => Submitted(SelectSeq(puts, LAMBDA p : p.kind = "product")) = product_payload

\* C19: in a run that is not dry no batch call is issued before the last row
\* was read and resolved, every chunk of the product bucket is dispatched
\* before the first chunk of a variation bucket, and once a batch call has
\* been issued the run makes no catalog read any more.
C19_ReadsThenWrites ==
    [](C19_Order) /\ [][(puts # <<>> /\ puts' # <<>>) => gets' = gets]_vars

\* three product chunks had gone out when the first variation chunk followed
C19_Witness ==
    /\ Len(puts) >= 2 /\ puts[1].kind = "product" /\ Last(puts).kind = "variation"
    /\ gets >= 2 /\ Len(rows) = 2

\* the update items a state holds or has sent
AllItems == Items \cup UNION {{puts[k].items[j] : j \in 1..Len(puts[k].items)} : k \in 1..Len(puts)}

\* C20: with do_stock false no item built or submitted has one of the stock
\* keys, with do_prices false none has a price key, whatever the rows carry;
\* with both false an item is its id alone, and a resolved row is still
\* accumulated and, when the flush is over, submitted.
C20_OptionsGateFields ==
    /\ \A item \in AllItems :
          /\ ~do_stock => DOMAIN item \cap StockKeys = {}
          /\ do_stock => StockKeys \subseteq DOMAIN item
          /\ ~do_prices => DOMAIN item \cap {"regular_price", "sale_price"} = {}
          /\ (~do_stock /\ ~do_prices) => item = [id |-> item.id]
    /\ ~dry_run =>
          LET resolved == Count(outcome, LAMBDA o : o.k \in {"product", "variation"}) IN
          /\ Len(product_payload) + Len(Accumulated(variations_payload_by_parent)) = resolved
          /\ pc \in {"finish", "done"} => Len(Submitted(puts)) = resolved

\* with both options off a row that carries a quantity and prices was
\* submitted as its id alone
C20_Witness ==
    /\ pc = "done" /\ ~dry_run /\ ~do_stock /\ ~do_prices
    /\ rows = <<RowSaleAbove>>
    /\ puts # <<>> /\ puts[1].items = <<[id |-> 42]>>

\* what the catalog lists: <<trimmed SKU, parent id, variation id>> for every
\* variation of every variable product
Listed ==
    UNION {{<<Strip(SkuOf(Catalog[p].variations[v])), Catalog[p].id,
              Catalog[p].variations[v].id>> : v \in 1..Len(Catalog[p].variations)} :
           p \in {q \in 1..Len(Catalog) : Catalog[q].type = "variable"}}

\* C21: in every state every entry sku -> <<parent id, variation id>> of the
\* variation index has a key that is not empty and names a variation that the
\* catalog lists under that variable product with that SKU once trimmed; no
\* variation whose SKU is missing or blank is the value of an entry. This
\* holds in the middle of a scan and after a scan that an error ended.
C21_IndexEntriesListed ==
    VARIATION_INDEX # <<>> =>
        LET listed == Listed
            unnamed == {<<e[2], e[3]>> : e \in {f \in listed : f[1] = <<>>}}
        IN  \A key \in DOMAIN VARIATION_INDEX :
                /\ key # <<>>
                /\ <<key, VARIATION_INDEX[key][1], VARIATION_INDEX[key][2]>> \in listed
                /\ VARIATION_INDEX[key] \notin unnamed

\* a scan of the small catalog indexed parent 10 (whose second variation has no
\* SKU) and was then ended by a failing request, before parent 20 was read
C21_Witness ==
    /\ JustAnswered /\ catalog = "small"
    /\ Last(outcome).k = "error" /\ Last(outcome).pages >= 2
    /\ indexAtCall = <<>>
    /\ DOMAIN VARIATION_INDEX = {<<"V", "1">>}

\* the item the row just resolved was given: the last of its bucket
LastItem ==
    IF Last(outcome).k = "product" THEN Last(product_payload)
    ELSE LET b == CHOOSE c \in 1..Len(variations_payload_by_parent) :
                     variations_payload_by_parent[c].parent_id = Last(outcome).parent_id
         IN  Last(variations_payload_by_parent[b].vlist)

\* C22: with do_stock on, when a row with a SKU and no quantity field has been
\* resolved in a run that is not dry, the item built for it has manage_stock
\* true, stock_quantity 0 and stock_status outofstock, and is the item the
\* builder returns for an explicit quantity of 0.
C22_MissingQuantityIsZero ==
    (/\ JustAnswered /\ ~dry_run /\ do_stock
     /\ Last(outcome).k \in {"product", "variation"}
     /\ "quantity" \notin DOMAIN rows[Len(outcome)])
        => LET row == rows[Len(outcome)]
               item == LastItem
           IN  /\ StockKeys \subseteq DOMAIN item
               /\ item.manage_stock = TRUE
               /\ item.stock_quantity = 0
               /\ item.stock_status = "outofstock"
               /\ item = IF Last(outcome).k = "product"
                         THEN build_update_item_for_product(
                                  Last(outcome).id, PyInt(0),
                                  RowPrice(row, "regular_price", do_prices),
                                  RowPrice(row, "sale_price", do_prices))
                         ELSE build_update_item_for_variation(
                                  Last(outcome).id, PyInt(0),
                                  RowPrice(row, "regular_price", do_prices),
                                  RowPrice(row, "sale_price", do_prices))

\* a product row without quantity was submitted, stock option on, as out of
\* stock with quantity 0
C22_Witness ==
    /\ pc = "done" /\ ~dry_run /\ do_stock /\ ~do_prices
    /\ rows = <<RowNoQuantity>>
    /\ Len(puts) = 1
    /\ puts[1].items = <<[id |-> 42, manage_stock |-> TRUE, stock_quantity |-> 0,
                           stock_status |-> "outofstock"]>>
====
